---- MODULE Spec2Model ----
(***************************************************************************)
(* A model of nrfs: the sharded reader-writer lock (src/src/rwlock.rs),    *)
(* and the in-memory file system built on it (src/src/lib.rs,              *)
(* src/src/mnode.rs).                                                      *)
(*                                                                         *)
(* Atomic operations are modelled as sequentially consistent single steps. *)
(* Values of the usize reader counters are kept as integers that stand for *)
(* their residue modulo 2^64 (so -1 stands for usize::MAX); the code only   *)
(* adds one, subtracts one and compares with zero.                         *)
(*                                                                         *)
(* The file system is modelled call by call (one action per call of the    *)
(* FileSystem trait). The file buffer and the mode bits (file.rs, io.rs)   *)
(* follow the specification text; the allocator is taken never to fail, so *)
(* no call returns OutOfMemory.                                            *)
(*                                                                         *)
(* Where the interleaving of calls matters the file system is modelled     *)
(* statement by statement: each access to files under its spin::RwLock is  *)
(* one step, and each access to mnodes goes through the steps of read()    *)
(* and write() of the sharded lock.                                        *)
(***************************************************************************)
EXTENDS Integers, Sequences, FiniteSets, TLC

\* ------------------------------------------------------------------------
\* Bounds of the model and constants of the program
\* ------------------------------------------------------------------------

\* rwlock.rs:18  const MAX_READER_THREADS: usize = 192
MAX_READER_THREADS == 192

\* How many read-modify-write updates are made under a WriteGuard.
MaxData == 2

\* How many direct calls of write_unlock / read_unlock are made.
MaxRaw == 1

\* Number of threads that use one RwLock.
NThreads == 3

Threads == 1..NThreads

\* The values max_thread takes (topology: hardware threads on socket 0).
MaxThreadChoices == {2}

\* The tids handed to read(): inside the active slots, inside the array but
\* beyond the active slots, and beyond the array.
TidChoices == {0, 1, 2, MAX_READER_THREADS}

\* The reader slots some call can name; every other slot stays zero forever.
Slots == {i \in TidChoices : i < MAX_READER_THREADS}

VARIABLES
    wlock,       \* RwLock.wlock : AtomicBool
    rlock,       \* RwLock.rlock : [AtomicUsize; MAX_READER_THREADS], on Slots
    max_thread,  \* RwLock.max_thread
    data,        \* RwLock.data, a usize as in the tests
    pc,          \* where each thread is in read() / write() / unlock
    tid,         \* the tid argument of the thread's read() or read_unlock()
    scan,        \* the writer's position in rlock.iter().take(n)
    tmp,         \* the value a writer loaded from data for  *ele += 1
    completed,   \* number of  *ele += 1  statements that have finished
    rawcalls     \* number of direct unlock calls made so far

lockvars == <<wlock, rlock, max_thread, data, pc, tid, scan, tmp, completed, rawcalls>>

VARIABLES
    files,        \* MemFS.files : HashMap<String, Arc<Mnode>>
    mnodes,       \* MemFS.mnodes : HashMap<Mnode, RwLock<MemNode>>
    nextmemnode,  \* MemFS.nextmemnode : AtomicUsize
    held,         \* per Arc<Mnode>: the clones lookup() has handed out
    created,      \* number of create calls that have returned an id
    last          \* the last call made: its arguments and its result

fsvars == <<files, mnodes, nextmemnode, held, created, last>>

VARIABLES
    fwriter,      \* MemFS.files (spin::RwLock): the caller holding its write guard, or 0
    freaders,     \* the callers holding a read guard of MemFS.files
    cpc,          \* where each concurrent caller is inside its call
    carg,         \* the arguments and locals of the call a caller is in
    cres,         \* what the last call of each caller returned
    calls,        \* number of calls the concurrent callers have made
    returned      \* per id: how many create calls have returned Ok(id)

concvars == <<fwriter, freaders, cpc, carg, cres, calls, returned>>

vars == <<lockvars, fsvars, concvars>>

\* ------------------------------------------------------------------------
\* RwLock (src/src/rwlock.rs)
\* ------------------------------------------------------------------------

\* RwLock::default(): flag false, all counters zero, data default.
RwLock_default ==
    /\ wlock = FALSE
    /\ rlock = [i \in Slots |-> 0]
    /\ max_thread \in MaxThreadChoices
    /\ data = 0

LockInit ==
    /\ RwLock_default
    /\ pc = [t \in Threads |-> "idle"]
    /\ tid = [t \in Threads |-> 0]
    /\ scan = [t \in Threads |-> 0]
    /\ tmp = [t \in Threads |-> 0]
    /\ completed = 0
    /\ rawcalls = 0

\* item.load() of slot i; slots no call names are zero.
SlotLoad(i) == IF i \in Slots THEN rlock[i] ELSE 0

\* core::ptr::read_volatile(ptr) of the write flag: a plain read racing with
\* atomic writes, so either value may come back.
read_volatile == BOOLEAN

\* How a thread ends when it panics: the two messages of the unlock
\* functions, and the bounds check of rlock[tid].
Panicked == {"panic_write_unlock", "panic_read_unlock", "panic_index"}

\* A thread enters write().
Call_write(t) ==
    /\ pc[t] = "idle"
    /\ pc' = [pc EXCEPT ![t] = "w_cas"]
    /\ UNCHANGED <<wlock, rlock, max_thread, data, tid, scan, tmp, completed, rawcalls, fsvars, concvars>>

\* A compare_and_swap(false, true) that does not look at the flag.
write_cas_blind(t) ==
    /\ pc[t] = "w_cas"
    /\ wlock' = TRUE
    /\ pc' = [pc EXCEPT ![t] = "w_scan"]
    /\ scan' = [scan EXCEPT ![t] = 0]
    /\ UNCHANGED <<rlock, max_thread, data, tid, tmp, completed, rawcalls, fsvars, concvars>>

\* write(): while self.wlock.compare_and_swap(false, true) { spin }
write_cas(t) ==
    /\ pc[t] = "w_cas"
    /\ IF wlock = FALSE
       THEN /\ wlock' = TRUE
            /\ pc' = [pc EXCEPT ![t] = "w_scan"]
            /\ scan' = [scan EXCEPT ![t] = 0]
       ELSE UNCHANGED <<wlock, pc, scan>>
    /\ UNCHANGED <<rlock, max_thread, data, tid, tmp, completed, rawcalls, fsvars, concvars>>

\* A scan that returns the guard without looking at the reader slots.
write_scan_skip(t) ==
    /\ pc[t] = "w_scan"
    /\ pc' = [pc EXCEPT ![t] = "w_held"]
    /\ UNCHANGED <<wlock, rlock, max_thread, data, tid, scan, tmp, completed, rawcalls, fsvars, concvars>>

\* write(): while !rlock.iter().take(n).all(|i| i.load() == 0) { spin }
\* One load per step; all() stops at the first busy slot and the loop starts
\* a new scan. After the last of the n slots the WriteGuard is returned.
write_scan(t) ==
    /\ pc[t] = "w_scan"
    /\ IF scan[t] >= max_thread \/ scan[t] >= MAX_READER_THREADS
       THEN /\ pc' = [pc EXCEPT ![t] = "w_held"]
            /\ scan' = [scan EXCEPT ![t] = 0]
       ELSE /\ scan' = [scan EXCEPT ![t] = IF SlotLoad(scan[t]) = 0 THEN scan[t] + 1 ELSE 0]
            /\ UNCHANGED pc
    /\ UNCHANGED <<wlock, rlock, max_thread, data, tid, tmp, completed, rawcalls, fsvars, concvars>>

\* *ele += 1 under a WriteGuard (DerefMut): the load ...
Guard_load(t) ==
    /\ pc[t] = "w_held"
    /\ completed < MaxData
    /\ tmp' = [tmp EXCEPT ![t] = data]
    /\ pc' = [pc EXCEPT ![t] = "w_loaded"]
    /\ UNCHANGED <<wlock, rlock, max_thread, data, tid, scan, completed, rawcalls, fsvars, concvars>>

\* ... and the store.
Guard_store(t) ==
    /\ pc[t] = "w_loaded"
    /\ data' = tmp[t] + 1
    /\ tmp' = [tmp EXCEPT ![t] = 0]
    /\ completed' = completed + 1
    /\ pc' = [pc EXCEPT ![t] = "w_held"]
    /\ UNCHANGED <<wlock, rlock, max_thread, tid, scan, rawcalls, fsvars, concvars>>

\* A write_unlock that returns although the flag was not set.
write_unlock_silent(t) ==
    /\ wlock' = FALSE
    /\ pc' = [pc EXCEPT ![t] = "idle"]

\* write_unlock(): if !wlock.compare_and_swap(true, false) { panic!() }
write_unlock(t) ==
    IF wlock = TRUE
    THEN /\ wlock' = FALSE
         /\ pc' = [pc EXCEPT ![t] = "idle"]
    ELSE /\ wlock' = wlock
         /\ pc' = [pc EXCEPT ![t] = "panic_write_unlock"]

\* Drop for WriteGuard.
Drop_WriteGuard(t) ==
    /\ pc[t] = "w_held"
    /\ write_unlock(t)
    /\ UNCHANGED <<rlock, max_thread, data, tid, scan, tmp, completed, rawcalls, fsvars, concvars>>

\* A thread enters read(tid).
Call_read(t, i) ==
    /\ pc[t] = "idle"
    /\ pc' = [pc EXCEPT ![t] = "r_spin"]
    /\ tid' = [tid EXCEPT ![t] = i]
    /\ UNCHANGED <<wlock, rlock, max_thread, data, scan, tmp, completed, rawcalls, fsvars, concvars>>

\* read(): while read_volatile(ptr) { spin }
read_spin(t) ==
    /\ pc[t] = "r_spin"
    /\ \E v \in read_volatile :
          pc' = [pc EXCEPT ![t] = IF v THEN "r_spin" ELSE "r_inc"]
    /\ UNCHANGED <<wlock, rlock, max_thread, data, tid, scan, tmp, completed, rawcalls, fsvars, concvars>>

\* A read() that marks its slot taken instead of counting itself in it.
read_inc_flag(t) ==
    /\ pc[t] = "r_inc"
    /\ IF tid[t] < MAX_READER_THREADS
       THEN /\ rlock' = [rlock EXCEPT ![tid[t]] = 1]
            /\ pc' = [pc EXCEPT ![t] = "r_check"]
       ELSE /\ pc' = [pc EXCEPT ![t] = "panic_index"]
            /\ UNCHANGED rlock
    /\ UNCHANGED <<wlock, max_thread, data, tid, scan, tmp, completed, rawcalls, fsvars, concvars>>

\* read(): self.rlock[tid].fetch_add(1); indexing beyond the array panics.
read_inc(t) ==
    /\ pc[t] = "r_inc"
    /\ IF tid[t] < MAX_READER_THREADS
       THEN /\ rlock' = [rlock EXCEPT ![tid[t]] = @ + 1]
            /\ pc' = [pc EXCEPT ![t] = "r_check"]
       ELSE /\ pc' = [pc EXCEPT ![t] = "panic_index"]
            /\ UNCHANGED rlock
    /\ UNCHANGED <<wlock, max_thread, data, tid, scan, tmp, completed, rawcalls, fsvars, concvars>>

\* A check that lets the reader in whatever the flag says.
read_check_blind(t) ==
    /\ pc[t] = "r_check"
    /\ pc' = [pc EXCEPT ![t] = "r_held"]
    /\ UNCHANGED <<wlock, rlock, max_thread, data, tid, scan, tmp, completed, rawcalls, fsvars, concvars>>

\* A check that also waits until no other reader is counted.
read_check_exclusive(t) ==
    /\ pc[t] = "r_check"
    /\ \/ wlock = TRUE
       \/ \A i \in Slots \ {tid[t]} : rlock[i] = 0
    /\ pc' = [pc EXCEPT ![t] = IF wlock = FALSE THEN "r_held" ELSE "r_dec"]
    /\ UNCHANGED <<wlock, rlock, max_thread, data, tid, scan, tmp, completed, rawcalls, fsvars, concvars>>

\* read(): if !self.wlock.load() { break }  -- else back off
read_check(t) ==
    /\ pc[t] = "r_check"
    /\ pc' = [pc EXCEPT ![t] = IF wlock = FALSE THEN "r_held" ELSE "r_dec"]
    /\ UNCHANGED <<wlock, rlock, max_thread, data, tid, scan, tmp, completed, rawcalls, fsvars, concvars>>

\* A back-off that retries without taking its count out of the slot.
read_dec_keep(t) ==
    /\ pc[t] = "r_dec"
    /\ pc' = [pc EXCEPT ![t] = "r_spin"]
    /\ UNCHANGED <<wlock, rlock, max_thread, data, tid, scan, tmp, completed, rawcalls, fsvars, concvars>>

\* read(): self.rlock[tid].fetch_sub(1) and retry
read_dec(t) ==
    /\ pc[t] = "r_dec"
    /\ rlock' = [rlock EXCEPT ![tid[t]] = @ - 1]
    /\ pc' = [pc EXCEPT ![t] = "r_spin"]
    /\ UNCHANGED <<wlock, max_thread, data, tid, scan, tmp, completed, rawcalls, fsvars, concvars>>

\* A read_unlock that returns although the slot was zero.
read_unlock_silent(t, i) ==
    IF i < MAX_READER_THREADS
    THEN /\ rlock' = [rlock EXCEPT ![i] = @ - 1]
         /\ pc' = [pc EXCEPT ![t] = "idle"]
    ELSE /\ rlock' = rlock
         /\ pc' = [pc EXCEPT ![t] = "panic_index"]

\* read_unlock(tid): if rlock[tid].fetch_sub(1) == 0 { panic!() }
\* The subtraction is made before the test, so the slot wraps.
read_unlock(t, i) ==
    IF i < MAX_READER_THREADS
    THEN /\ rlock' = [rlock EXCEPT ![i] = @ - 1]
         /\ pc' = [pc EXCEPT ![t] = IF rlock[i] = 0 THEN "panic_read_unlock" ELSE "idle"]
    ELSE /\ rlock' = rlock
         /\ pc' = [pc EXCEPT ![t] = "panic_index"]

\* Drop for ReadGuard.
Drop_ReadGuard(t) ==
    /\ pc[t] = "r_held"
    /\ read_unlock(t, tid[t])
    /\ tid' = [tid EXCEPT ![t] = 0]
    /\ UNCHANGED <<wlock, max_thread, data, scan, tmp, completed, rawcalls, fsvars, concvars>>

\* A direct call of write_unlock(), as the tests of the module make.
Call_write_unlock(t) ==
    /\ pc[t] = "idle"
    /\ rawcalls < MaxRaw
    /\ rawcalls' = rawcalls + 1
    /\ pc' = [pc EXCEPT ![t] = "write_unlock"]
    /\ UNCHANGED <<wlock, rlock, max_thread, data, tid, scan, tmp, completed, fsvars, concvars>>

Do_write_unlock(t) ==
    /\ pc[t] = "write_unlock"
    /\ write_unlock(t)
    /\ UNCHANGED <<rlock, max_thread, data, tid, scan, tmp, completed, rawcalls, fsvars, concvars>>

\* A direct call of read_unlock(tid).
Call_read_unlock(t, i) ==
    /\ pc[t] = "idle"
    /\ rawcalls < MaxRaw
    /\ rawcalls' = rawcalls + 1
    /\ pc' = [pc EXCEPT ![t] = "read_unlock"]
    /\ tid' = [tid EXCEPT ![t] = i]
    /\ UNCHANGED <<wlock, rlock, max_thread, data, scan, tmp, completed, fsvars, concvars>>

Do_read_unlock(t) ==
    /\ pc[t] = "read_unlock"
    /\ read_unlock(t, tid[t])
    /\ tid' = [tid EXCEPT ![t] = 0]
    /\ UNCHANGED <<wlock, max_thread, data, scan, tmp, completed, rawcalls, fsvars, concvars>>

\* The lock used through read(), write() and the guards.
LockNext ==
    \E t \in Threads :
        \/ Call_write(t)
        \/ write_cas(t)
        \/ write_scan(t)
        \/ Guard_load(t)
        \/ Guard_store(t)
        \/ Drop_WriteGuard(t)
        \/ \E i \in TidChoices : Call_read(t, i)
        \/ read_spin(t)
        \/ read_inc(t)
        \/ read_check(t)
        \/ read_dec(t)
        \/ Drop_ReadGuard(t)

\* The tids used beside the direct unlock calls: a slot of the array, and an
\* index beyond it.
UnlockTids == {0, MAX_READER_THREADS}

\* The lock used as its own module can: the unlock functions called directly,
\* next to read(), write() and the guards' drops.
UnlockNext ==
    \E t \in Threads :
        \/ Call_write(t)
        \/ write_cas(t)
        \/ write_scan(t)
        \/ Drop_WriteGuard(t)
        \/ \E i \in UnlockTids : Call_read(t, i)
        \/ read_spin(t)
        \/ read_inc(t)
        \/ read_check(t)
        \/ read_dec(t)
        \/ Drop_ReadGuard(t)
        \/ Call_write_unlock(t)
        \/ Do_write_unlock(t)
        \/ \E i \in UnlockTids : Call_read_unlock(t, i)
        \/ Do_read_unlock(t)

\* The threads that hold a guard.
WriteGuards == {t \in Threads : pc[t] \in {"w_held", "w_loaded"}}
ReadGuards == {t \in Threads : pc[t] = "r_held"}

\* The writers between their successful compare_and_swap and their unlock.
Flagged == {t \in Threads : pc[t] \in {"w_scan", "w_held", "w_loaded"}}

\* The threads inside read() whose increment of their slot is in effect.
Counted == {t \in Threads : pc[t] \in {"r_check", "r_dec", "r_held"}}

\* The lock used by writers only: threads that call write() again and again
\* and update the data under the guard.
WritersNext ==
    \E t \in Threads :
        \/ Call_write(t)
        \/ write_cas(t)
        \/ write_scan(t)
        \/ Guard_load(t)
        \/ Guard_store(t)
        \/ Drop_WriteGuard(t)

\* Fair scheduling: a thread inside write() or holding the guard is not
\* halted. It executes its compare_and_swap and its loads again and again,
\* finishes an update it has begun and drops its guard; a
\* compare_and_swap that finds the flag set changes nothing and is retried.
\* Nothing obliges a thread to call write().
WritersFair ==
    \A t \in Threads :
        /\ WF_vars(write_cas(t))
        /\ WF_vars(write_scan(t))
        /\ WF_vars(Guard_store(t))
        /\ WF_vars(Drop_WriteGuard(t))

\* ------------------------------------------------------------------------
\* File buffer and mode bits (file.rs, io.rs: modelled from the specification)
\* ------------------------------------------------------------------------

\* FileModes: S_IRWXU = 0o700, user read = 0o400, user write = 0o200.
S_IRWXU == 448
S_IRUSR == 256
S_IWUSR == 128

is_readable(modes) == (modes \div S_IRUSR) % 2 = 1
is_writable(modes) == (modes \div S_IWUSR) % 2 = 1

File_new(modes) == [modes |-> modes, mcache |-> <<>>]

get_size(file) == Len(file.mcache)

Max(a, b) == IF a >= b THEN a ELSE b
Min(a, b) == IF a <= b THEN a ELSE b

\* write_file: grow to offset + len with zeroes, overwrite [offset, offset + len).
write_file(file, buffer, offset) ==
    [file EXCEPT !.mcache =
        [k \in 1..Max(Len(@), offset + Len(buffer)) |->
            IF k > offset /\ k <= offset + Len(buffer) THEN buffer[k - offset]
            ELSE IF k <= Len(@) THEN @[k]
            ELSE 0]]

\* read_file: the bytes [start, end).
read_file(file, start, end) == SubSeq(file.mcache, start + 1, end)

\* file_truncate: release the contents.
File_truncate(file) == [file EXCEPT !.mcache = <<>>]

\* ------------------------------------------------------------------------
\* MemNode (src/src/mnode.rs)
\* ------------------------------------------------------------------------

None == "None"

MemNode_new(mnode_num, pathname, modes, node_type) ==
    [mnode_num |-> mnode_num,
     node_type |-> node_type,
     file |-> IF node_type = "Directory" THEN None ELSE File_new(modes)]

\* A write that looks at the kind of the memnode only, never at its mode.
MemNode_write_any_mode(node, buffer, offset) ==
    IF node.node_type # "File"
    THEN [res |-> "PermissionError", val |-> 0, node |-> node]
    ELSE [res |-> "Ok", val |-> Len(buffer),
          node |-> [node EXCEPT !.file = write_file(@, buffer, offset)]]

\* MemNode::write: the result and the memnode afterwards.
MemNode_write(node, buffer, offset) ==
    IF node.node_type # "File" \/ ~is_writable(node.file.modes)
    THEN [res |-> "PermissionError", val |-> 0, node |-> node]
    ELSE [res |-> "Ok", val |-> Len(buffer),
          node |-> [node EXCEPT !.file = write_file(@, buffer, offset)]]

\* A read that copies from the start of the file whatever the offset.
MemNode_read_from_start(node, len, offset) ==
    IF node.node_type # "File" \/ ~is_readable(node.file.modes)
    THEN [res |-> "PermissionError", val |-> 0, out |-> <<>>]
    ELSE LET bytes_to_read == Min(get_size(node.file), len)
         IN IF bytes_to_read = 0
            THEN [res |-> "InvalidOffset", val |-> 0, out |-> <<>>]
            ELSE [res |-> "Ok", val |-> bytes_to_read,
                  out |-> read_file(node.file, 0, bytes_to_read)]

\* A read that returns zero bytes at the end of the file, or into an empty
\* buffer, instead of failing.
MemNode_read_eof_ok(node, len, offset) ==
    IF node.node_type # "File" \/ ~is_readable(node.file.modes)
    THEN [res |-> "PermissionError", val |-> 0, out |-> <<>>]
    ELSE LET file_size == get_size(node.file) IN
         IF offset > file_size
         THEN [res |-> "InvalidOffset", val |-> 0, out |-> <<>>]
         ELSE LET bytes_to_read == Min(file_size - offset, len)
              IN [res |-> "Ok", val |-> bytes_to_read,
                  out |-> read_file(node.file, offset, offset + bytes_to_read)]

\* MemNode::read into a buffer of length len: the result and the bytes copied.
MemNode_read(node, len, offset) ==
    IF node.node_type # "File" \/ ~is_readable(node.file.modes)
    THEN [res |-> "PermissionError", val |-> 0, out |-> <<>>]
    ELSE LET file_size == get_size(node.file) IN
         IF offset > file_size
         THEN [res |-> "InvalidOffset", val |-> 0, out |-> <<>>]
         ELSE LET bytes_to_read == Min(file_size - offset, len)
                  new_offset == offset + bytes_to_read
              IN IF offset >= new_offset \/ new_offset > file_size
                 THEN [res |-> "InvalidOffset", val |-> 0, out |-> <<>>]
                 ELSE [res |-> "Ok", val |-> new_offset - offset,
                       out |-> read_file(node.file, offset, new_offset)]

\* MemNode::file_truncate
MemNode_file_truncate(node) ==
    IF node.node_type # "File" \/ ~is_writable(node.file.modes)
    THEN [res |-> "PermissionError", node |-> node]
    ELSE [res |-> "Ok", node |-> [node EXCEPT !.file = File_truncate(@)]]

\* ------------------------------------------------------------------------
\* MemFS (src/src/lib.rs), one call after another
\* ------------------------------------------------------------------------

\* Ids are allocated up to MaxId; at most MaxHeld clones handed out by
\* lookup are alive at a time.
MaxId == 3
MaxHeld == 1

PathNames == {"/", "a", "b"}
ModeChoices == {S_IRWXU, S_IRUSR}
AllIds == 1..MaxId

\* The mnode numbers handed to write / read / file_info: zero, the ids that
\* can exist, and one whose tid lies beyond the reader array.
IdChoices == {0} \cup AllIds \cup {MAX_READER_THREADS + 1}
Buffers == {<<1>>}
Offsets == {0}
BufLens == {1}

\* HashMap::insert and HashMap::remove
Insert(map, k, v) == [x \in DOMAIN map \cup {k} |-> IF x = k THEN v ELSE map[x]]
Remove(map, k) == [x \in DOMAIN map \ {k} |-> map[x]]

NoCall == [op |-> "none", res |-> "Ok", val |-> 0, out |-> <<>>]

\* The record of a call: which function, its result res, the number val that
\* comes with it (the id created, found or removed, the bytes written or
\* read, the file size) and the bytes out copied to the caller's buffer.
Call(op, res, val, out) == [op |-> op, res |-> res, val |-> val, out |-> out]

\* MemFS::default()
MemFS_default ==
    /\ mnodes = Insert(<<>>, 1, MemNode_new(1, "/", S_IRWXU, "Directory"))
    /\ files = Insert(<<>>, "/", 1)
    /\ nextmemnode = 2

FSInit ==
    /\ MemFS_default
    /\ held = [i \in AllIds |-> 0]
    /\ created = 0
    /\ last = NoCall

\* A call can be made unless an earlier one still spins inside the file system.
Running == last.res # "hang"

\* Arc::strong_count of the Arc with this id while the caller of delete owns
\* the entry it has removed: that one, and the clones lookup() has handed out.
strong_count(H, id) == 1 + H[id]

\* mnode_num as usize - 1, the tid handed to mnodes.read(): for 0 the
\* subtraction overflows (a panic, or with wrapping usize::MAX, an index
\* beyond the array).
TidOf(mnode_num) == IF mnode_num >= 1 THEN mnode_num - 1 ELSE MAX_READER_THREADS

\* mnodes.read(tid) made with nobody else using the lock: the guard is
\* returned unless rlock[tid] is out of bounds.
NrRead(t) == IF t < MAX_READER_THREADS THEN "Ok" ELSE "panic"

\* A create that takes an id before it looks the path up.
create_alloc_first(F, M, next, pathname, modes) ==
    IF pathname \in DOMAIN F
    THEN [res |-> "AlreadyPresent", val |-> 0, files |-> F, mnodes |-> M, next |-> next + 1]
    ELSE [res |-> "Ok", val |-> next,
          files |-> Insert(F, pathname, next),
          mnodes |-> Insert(M, next, MemNode_new(next, pathname, modes, "File")),
          next |-> next + 1]

\* A create that does not look the path up.
create_unchecked(F, M, next, pathname, modes) ==
    [res |-> "Ok", val |-> next,
     files |-> Insert(F, pathname, next),
     mnodes |-> Insert(M, next, MemNode_new(next, pathname, modes, "File")),
     next |-> next + 1]

\* A create that inserts the path under the wrong id.
create_wrong_id(F, M, next, pathname, modes) ==
    IF pathname \in DOMAIN F
    THEN [res |-> "AlreadyPresent", val |-> 0, files |-> F, mnodes |-> M, next |-> next]
    ELSE [res |-> "Ok", val |-> next,
          files |-> Insert(F, pathname, next - 1),
          mnodes |-> Insert(M, next, MemNode_new(next, pathname, modes, "File")),
          next |-> next + 1]

\* MemFS::create on files F, mnodes M and counter next.
create(F, M, next, pathname, modes) ==
    IF pathname \in DOMAIN F
    THEN [res |-> "AlreadyPresent", val |-> 0, files |-> F, mnodes |-> M, next |-> next]
    ELSE LET mnode_num == next   \* get_next_mno(): fetch_add(1)
         IN [res |-> "Ok", val |-> mnode_num,
             files |-> Insert(F, pathname, mnode_num),
             mnodes |-> Insert(M, mnode_num, MemNode_new(mnode_num, pathname, modes, "File")),
             next |-> next + 1]

MemFS_create(pathname, modes) ==
    /\ Running
    /\ nextmemnode <= MaxId \/ pathname \in DOMAIN files
    /\ LET r == create(files, mnodes, nextmemnode, pathname, modes) IN
        /\ files' = r.files
        /\ mnodes' = r.mnodes
        /\ nextmemnode' = r.next
        /\ created' = IF r.res = "Ok" THEN created + 1 ELSE created
        /\ last' = Call("create", r.res, r.val, <<>>)
    /\ UNCHANGED <<held, lockvars, concvars>>

\* MemFS::write on mnodes M: the result and mnodes afterwards.
write(M, mnode_num, buffer, offset) ==
    IF NrRead(TidOf(mnode_num)) = "panic"
    THEN [res |-> "panic", val |-> 0, mnodes |-> M]
    ELSE IF mnode_num \notin DOMAIN M
    THEN [res |-> "InvalidFile", val |-> 0, mnodes |-> M]
    ELSE LET r == MemNode_write(M[mnode_num], buffer, offset) IN
         [res |-> r.res, val |-> r.val,
          mnodes |-> [M EXCEPT ![mnode_num] = r.node]]

MemFS_write(mnode_num, buffer, offset) ==
    /\ Running
    /\ LET r == write(mnodes, mnode_num, buffer, offset) IN
        /\ mnodes' = r.mnodes
        /\ last' = Call("write", r.res, r.val, <<>>)
    /\ UNCHANGED <<files, nextmemnode, held, created, lockvars, concvars>>

\* MemFS::read on mnodes M into a buffer of length len: the result and the
\* bytes copied.
read(M, mnode_num, len, offset) ==
    IF NrRead(TidOf(mnode_num)) = "panic"
    THEN [res |-> "panic", val |-> 0, out |-> <<>>]
    ELSE IF mnode_num \notin DOMAIN M
    THEN [res |-> "InvalidFile", val |-> 0, out |-> <<>>]
    ELSE MemNode_read(M[mnode_num], len, offset)

MemFS_read(mnode_num, len, offset) ==
    /\ Running
    /\ LET r == read(mnodes, mnode_num, len, offset) IN
        last' = Call("read", r.res, r.val, r.out)
    /\ UNCHANGED <<files, mnodes, nextmemnode, held, created, lockvars, concvars>>

\* The number of clones callers hold.
RECURSIVE SumOver(_, _)
SumOver(H, S) == IF S = {} THEN 0
                 ELSE LET x == CHOOSE y \in S : TRUE IN H[x] + SumOver(H, S \ {x})
Outstanding(H) == SumOver(H, DOMAIN H)

\* What lookup returns: the id behind the Arc, or None.
lookup(F, pathname) == IF pathname \in DOMAIN F THEN F[pathname] ELSE 0

\* MemFS::lookup: the caller is handed a clone of the Arc.
MemFS_lookup(pathname) ==
    /\ Running
    /\ IF pathname \in DOMAIN files
       THEN /\ Outstanding(held) < MaxHeld
            /\ held' = [held EXCEPT ![files[pathname]] = @ + 1]
            /\ last' = Call("lookup", "Some", files[pathname], <<>>)
       ELSE /\ held' = held
            /\ last' = Call("lookup", "None", 0, <<>>)
    /\ UNCHANGED <<files, mnodes, nextmemnode, created, lockvars, concvars>>

\* A caller drops a clone it got from lookup.
Drop_Arc(id) ==
    /\ Running
    /\ held[id] > 0
    /\ held' = [held EXCEPT ![id] = @ - 1]
    /\ last' = Call("drop", "Ok", id, <<>>)
    /\ UNCHANGED <<files, mnodes, nextmemnode, created, lockvars, concvars>>

\* MemFS::file_info: val is fsize; an absent id is unreachable!().
MemFS_file_info(mnode) ==
    /\ Running
    /\ IF NrRead(TidOf(mnode)) = "panic" \/ mnode \notin DOMAIN mnodes
       THEN last' = Call("file_info", "panic", 0, <<>>)
       ELSE IF mnodes[mnode].node_type = "Directory"
       THEN last' = Call("file_info", "Directory", 0, <<>>)
       ELSE last' = Call("file_info", "File", get_size(mnodes[mnode].file), <<>>)
    /\ UNCHANGED <<files, mnodes, nextmemnode, held, created, lockvars, concvars>>

\* A delete that removes the memnode and leaves the path.
delete_keep_path(F, M, H, pathname) ==
    IF pathname \notin DOMAIN F
    THEN [res |-> "InvalidFile", id |-> 0, files |-> F, mnodes |-> M]
    ELSE [res |-> "Ok", id |-> F[pathname], files |-> F, mnodes |-> Remove(M, F[pathname])]

\* A delete that removes the path and leaves the memnode.
delete_keep_mnode(F, M, H, pathname) ==
    IF pathname \notin DOMAIN F
    THEN [res |-> "InvalidFile", id |-> 0, files |-> F, mnodes |-> M]
    ELSE [res |-> "Ok", id |-> F[pathname], files |-> Remove(F, pathname), mnodes |-> M]

\* MemFS::delete on files F, mnodes M and handed-out clones H.
\* The write guard of the match scrutinee  self.files.write().remove(..)
\* lives to the end of the match; the arm for strong_count > 1 asks for
\* self.files.write() again and spins on the lock its own thread holds.
delete(F, M, H, pathname) ==
    IF pathname \notin DOMAIN F
    THEN [res |-> "InvalidFile", id |-> 0, files |-> F, mnodes |-> M]
    ELSE LET mnode == F[pathname] IN
         IF strong_count(H, mnode) = 1
         THEN [res |-> "Ok", id |-> mnode,
               files |-> Remove(F, pathname), mnodes |-> Remove(M, mnode)]
         ELSE [res |-> "hang", id |-> mnode,
               files |-> Remove(F, pathname), mnodes |-> M]

MemFS_delete(pathname) ==
    /\ Running
    /\ LET r == delete(files, mnodes, held, pathname) IN
        /\ files' = r.files
        /\ mnodes' = r.mnodes
        /\ last' = Call("delete", r.res, r.id, <<>>)
    /\ UNCHANGED <<nextmemnode, held, created, lockvars, concvars>>

\* MemFS::truncate on the maps F (files) and M (mnodes), always with tid 0:
\* the result, the id the path resolved to and the memnodes afterwards.
truncate(F, M, pathname) ==
    IF pathname \notin DOMAIN F
    THEN [res |-> "InvalidFile", val |-> 0, mnodes |-> M]
    ELSE IF F[pathname] \notin DOMAIN M
    THEN [res |-> "InvalidFile", val |-> 0, mnodes |-> M]
    ELSE LET r == MemNode_file_truncate(M[F[pathname]]) IN
         [res |-> r.res, val |-> F[pathname],
          mnodes |-> [M EXCEPT ![F[pathname]] = r.node]]

MemFS_truncate(pathname) ==
    /\ Running
    /\ LET r == truncate(files, mnodes, pathname) IN
         /\ mnodes' = r.mnodes
         /\ last' = Call("truncate", r.res, r.val, <<>>)
    /\ UNCHANGED <<files, nextmemnode, held, created, lockvars, concvars>>

\* A rename that inserts the new path and leaves the old one in place.
rename_keep_old(F, M, H, oldname, newname) ==
    IF oldname \notin DOMAIN F
    THEN [res |-> "InvalidFile", id |-> 0, files |-> F, mnodes |-> M]
    ELSE LET d == IF newname \in DOMAIN F
                  THEN delete(F, M, H, newname)
                  ELSE [res |-> "Ok", id |-> 0, files |-> F, mnodes |-> M]
         IN IF d.res # "Ok" \/ oldname \notin DOMAIN d.files
            THEN [res |-> "panic", id |-> d.id, files |-> d.files, mnodes |-> d.mnodes]
            ELSE [res |-> "Ok", id |-> d.files[oldname],
                  files |-> Insert(d.files, newname, d.files[oldname]),
                  mnodes |-> d.mnodes]

\* MemFS::rename on files F, mnodes M and handed-out clones H.
rename(F, M, H, oldname, newname) ==
    IF oldname \notin DOMAIN F
    THEN [res |-> "InvalidFile", id |-> 0, files |-> F, mnodes |-> M]
    ELSE LET d == IF newname \in DOMAIN F
                  THEN delete(F, M, H, newname)
                  ELSE [res |-> "Ok", id |-> 0, files |-> F, mnodes |-> M]
         IN IF d.res = "hang"
            THEN [res |-> "hang", id |-> d.id, files |-> d.files, mnodes |-> d.mnodes]
            ELSE IF d.res # "Ok" \/ oldname \notin DOMAIN d.files
            \* delete(newname).unwrap() or remove_entry(oldname).unwrap()
            THEN [res |-> "panic", id |-> d.id, files |-> d.files, mnodes |-> d.mnodes]
            ELSE LET value == d.files[oldname]
                     removed == Remove(d.files, oldname)
                 IN [res |-> IF newname \in DOMAIN removed THEN "PermissionError" ELSE "Ok",
                     id |-> value,
                     files |-> Insert(removed, newname, value),
                     mnodes |-> d.mnodes]

MemFS_rename(oldname, newname) ==
    /\ Running
    /\ LET r == rename(files, mnodes, held, oldname, newname) IN
        /\ files' = r.files
        /\ mnodes' = r.mnodes
        /\ last' = Call("rename", r.res, r.id, <<>>)
    /\ UNCHANGED <<nextmemnode, held, created, lockvars, concvars>>

FSNext ==
    \/ \E p \in PathNames, m \in ModeChoices : MemFS_create(p, m)
    \/ \E i \in IdChoices, b \in Buffers, o \in Offsets : MemFS_write(i, b, o)
    \/ \E i \in IdChoices, n \in BufLens, o \in Offsets : MemFS_read(i, n, o)
    \/ \E p \in PathNames : MemFS_lookup(p)
    \/ \E i \in AllIds : Drop_Arc(i)
    \/ \E i \in IdChoices : MemFS_file_info(i)
    \/ \E p \in PathNames : MemFS_delete(p)
    \/ \E p \in PathNames : MemFS_truncate(p)
    \/ \E p, q \in PathNames : MemFS_rename(p, q)

\* The calls that act on the contents of one file: buffers of up to MaxBuf
\* bytes written and read at offsets up to MaxOffset.
MaxBuf == 2
MaxOffset == 2
Bytes == {1, 2}
FileBuffers == UNION {[1..n -> Bytes] : n \in 1..MaxBuf}
FileOffsets == 0..MaxOffset
FilePaths == {"a"}

\* The lengths of the buffers handed to read (an empty one included), and
\* offsets up to one beyond the largest file.
FileLens == 0..MaxBuf
AnyOffsets == 0..(MaxOffset + MaxBuf + 1)

FileModes == {S_IRWXU, S_IRUSR, S_IWUSR}
RootOrFile == FilePaths \cup {"/"}
\* the root, the one file FilePaths allows, and an id no memnode has
FileIds == {1, 2, MaxId}

FileNext ==
    \/ \E p \in FilePaths, m \in FileModes : MemFS_create(p, m)
    \/ \E i \in FileIds, b \in FileBuffers, o \in FileOffsets : MemFS_write(i, b, o)
    \/ \E i \in FileIds, n \in FileLens, o \in FileOffsets : MemFS_read(i, n, o)
    \/ \E i \in FileIds : MemFS_file_info(i)
    \/ \E p \in RootOrFile : MemFS_truncate(p)

\* ------------------------------------------------------------------------
\* MemFS (src/src/lib.rs) called by several threads at once
\* ------------------------------------------------------------------------

\* The callers are threads of the lock of mnodes (wlock, rlock, max_thread,
\* pc and tid are that lock and the callers' places in its read() and
\* write()); together they make at most MaxCalls calls.
MaxCalls == 2
Callers == {1, 2}
ConcPaths == {"/", "a"}
ConcModes == {S_IRWXU}
\* The mnode numbers the callers hand to write and read: the first ids
\* create hands out (their tids lie inside the array of reader slots).
ConcIds == {2, 3}

NoArgs == [op |-> "none", p |-> "", q |-> "", n |-> 0, m |-> 0, b |-> <<>>, o |-> 0]
NoResult == [op |-> "none", res |-> "Ok", val |-> 0, p |-> ""]

\* A call begun: its name, paths p and q, number n (an mnode number or a
\* buffer length), modes m, buffer b and offset o.
Args(op, p, q, n, m, b, o) == [op |-> op, p |-> p, q |-> q, n |-> n, m |-> m, b |-> b, o |-> o]

\* A call returned (res is "panic" when it unwound instead).
Result(op, res, val, p) == [op |-> op, res |-> res, val |-> val, p |-> p]

ConcInit ==
    /\ fwriter = 0
    /\ freaders = {}
    /\ cpc = [t \in Threads |-> "idle"]
    /\ carg = [t \in Threads |-> NoArgs]
    /\ cres = [t \in Threads |-> NoResult]
    /\ calls = 0
    /\ returned = [i \in {} |-> 0]

\* spin::RwLock of files: read() waits for the writer, write() for everybody.
files_read_free == fwriter = 0
files_write_free == fwriter = 0 /\ freaders = {}

\* A caller may begin a call.
CanCall(t) == cpc[t] = "idle" /\ pc[t] = "idle" /\ calls < MaxCalls

\* The ids create has returned so far, one more of them being id.
Returned(R, id) ==
    [i \in DOMAIN R \cup {id} |->
        (IF i \in DOMAIN R THEN R[i] ELSE 0) + (IF i = id THEN 1 ELSE 0)]

\* The call of caller t returns r: the caller is idle again, or gone if the
\* call panicked.
Return(t, r) ==
    /\ cres' = [cres EXCEPT ![t] = r]
    /\ returned' = IF r.op = "create" /\ r.res = "Ok"
                   THEN Returned(returned, r.val) ELSE returned
    /\ cpc' = [cpc EXCEPT ![t] = IF r.res = "panic" THEN "panicked" ELSE "idle"]
    /\ carg' = [carg EXCEPT ![t] = NoArgs]

\* The caller moves on inside its call.
Goto(t, where, a) ==
    /\ cpc' = [cpc EXCEPT ![t] = where]
    /\ carg' = [carg EXCEPT ![t] = a]
    /\ UNCHANGED <<cres, returned>>

\* self.mnodes.write() and self.mnodes.read(i) begin; the steps of the lock
\* (write_cas, write_scan, read_spin, read_inc, read_check, read_dec) follow.
Begin_mnodes_write(t) ==
    /\ pc' = [pc EXCEPT ![t] = "w_cas"]
    /\ UNCHANGED <<wlock, rlock, max_thread, data, tid, scan, tmp, completed, rawcalls>>

Begin_mnodes_read(t, i) ==
    /\ pc' = [pc EXCEPT ![t] = "r_spin"]
    /\ tid' = [tid EXCEPT ![t] = i]
    /\ UNCHANGED <<wlock, rlock, max_thread, data, scan, tmp, completed, rawcalls>>

\* The guards of mnodes are dropped.
End_mnodes_write(t) ==
    /\ write_unlock(t)
    /\ UNCHANGED <<rlock, max_thread, data, tid, scan, tmp, completed, rawcalls>>

End_mnodes_read(t) ==
    /\ read_unlock(t, tid[t])
    /\ tid' = [tid EXCEPT ![t] = 0]
    /\ UNCHANGED <<wlock, max_thread, data, scan, tmp, completed, rawcalls>>

\* create: files.read().get(pathname), lib.rs:143-146
Conc_create(t, pathname, modes) ==
    /\ CanCall(t)
    /\ files_read_free
    /\ calls' = calls + 1
    /\ IF pathname \in DOMAIN files
       THEN Return(t, Result("create", "AlreadyPresent", 0, pathname))
       ELSE Goto(t, "create_alloc", Args("create", pathname, "", 0, modes, <<>>, 0))
    /\ UNCHANGED <<fwriter, freaders, fsvars, lockvars>>

\* An allocation that reads the counter and leaves it as it was.
Conc_create_alloc_load(t) ==
    /\ cpc[t] = "create_alloc"
    /\ nextmemnode' = nextmemnode
    /\ Goto(t, "create_files", [carg[t] EXCEPT !.n = nextmemnode])
    /\ UNCHANGED <<fwriter, freaders, calls, files, mnodes, held, created, last, lockvars>>

\* create: get_next_mno(), lib.rs:148
Conc_create_alloc(t) ==
    /\ cpc[t] = "create_alloc"
    /\ nextmemnode' = nextmemnode + 1
    /\ Goto(t, "create_files", [carg[t] EXCEPT !.n = nextmemnode])
    /\ UNCHANGED <<fwriter, freaders, calls, files, mnodes, held, created, last, lockvars>>

\* create: files.write().insert(pathname, Arc::new(mnode_num)), lib.rs:155-157
Conc_create_files(t) ==
    /\ cpc[t] = "create_files"
    /\ files_write_free
    /\ files' = Insert(files, carg[t].p, carg[t].n)
    /\ Goto(t, "create_mnodes", carg[t])
    /\ Begin_mnodes_write(t)
    /\ UNCHANGED <<fwriter, freaders, calls, mnodes, nextmemnode, held, created, last>>

\* create: mnodes.write().insert(mnode_num, memnode); Ok(mnode_num), lib.rs:158-160
Conc_create_mnodes(t) ==
    /\ cpc[t] = "create_mnodes" /\ pc[t] = "w_held"
    /\ mnodes' = Insert(mnodes, carg[t].n,
                        MemNode_new(carg[t].n, carg[t].p, carg[t].m, "File"))
    /\ End_mnodes_write(t)
    /\ Return(t, Result("create", "Ok", carg[t].n, carg[t].p))
    /\ UNCHANGED <<fwriter, freaders, calls, files, nextmemnode, held, created, last>>

\* HashMap::get(&id) on mnodes under a ReadGuard of caller t. While another
\* thread holds the WriteGuard the get races with that thread's insert or
\* remove (a data race on the map): it may miss an entry that is there.
mnodes_get(t, id) ==
    IF WriteGuards \ {t} = {}
    THEN {id \in DOMAIN mnodes}
    ELSE {id \in DOMAIN mnodes, FALSE}

\* write: self.mnodes.read(mnode_num as usize - 1), lib.rs:170
Conc_write(t, mnode_num, buffer, offset) ==
    /\ CanCall(t)
    /\ calls' = calls + 1
    /\ Goto(t, "write_get", Args("write", "", "", mnode_num, 0, buffer, offset))
    /\ Begin_mnodes_read(t, TidOf(mnode_num))
    /\ UNCHANGED <<fwriter, freaders, fsvars>>

\* write: .get(&mnode_num) and mnode.write().write(buffer, offset), lib.rs:170-173
Conc_write_get(t) ==
    /\ cpc[t] = "write_get" /\ pc[t] = "r_held"
    /\ \E found \in mnodes_get(t, carg[t].n) :
          IF found
          THEN LET r == MemNode_write(mnodes[carg[t].n], carg[t].b, carg[t].o) IN
               /\ mnodes' = [mnodes EXCEPT ![carg[t].n] = r.node]
               /\ Return(t, Result("write", r.res, r.val, ""))
          ELSE /\ mnodes' = mnodes
               /\ Return(t, Result("write", "InvalidFile", 0, ""))
    /\ End_mnodes_read(t)
    /\ UNCHANGED <<fwriter, freaders, calls, files, nextmemnode, held, created, last>>

\* read: self.mnodes.read(mnode_num as usize - 1), lib.rs:183
Conc_read(t, mnode_num, len, offset) ==
    /\ CanCall(t)
    /\ calls' = calls + 1
    /\ Goto(t, "read_get", Args("read", "", "", mnode_num, 0, [k \in 1..len |-> 0], offset))
    /\ Begin_mnodes_read(t, TidOf(mnode_num))
    /\ UNCHANGED <<fwriter, freaders, fsvars>>

\* read: .get(&mnode_num) and mnode.read().read(buffer, offset), lib.rs:183-186
Conc_read_get(t) ==
    /\ cpc[t] = "read_get" /\ pc[t] = "r_held"
    /\ \E found \in mnodes_get(t, carg[t].n) :
          IF found
          THEN LET r == MemNode_read(mnodes[carg[t].n], Len(carg[t].b), carg[t].o) IN
               Return(t, Result("read", r.res, r.val, ""))
          ELSE Return(t, Result("read", "InvalidFile", 0, ""))
    /\ End_mnodes_read(t)
    /\ UNCHANGED <<fwriter, freaders, calls, fsvars>>

\* file_info: self.mnodes.read(mnode as usize - 1), lib.rs:199
Conc_file_info(t, mnode) ==
    /\ CanCall(t)
    /\ calls' = calls + 1
    /\ Goto(t, "file_info_get", Args("file_info", "", "", mnode, 0, <<>>, 0))
    /\ Begin_mnodes_read(t, TidOf(mnode))
    /\ UNCHANGED <<fwriter, freaders, fsvars>>

\* file_info: .get(&mnode) and the match on it, lib.rs:199-211; None is
\* unreachable!().
Conc_file_info_get(t) ==
    /\ cpc[t] = "file_info_get" /\ pc[t] = "r_held"
    /\ \E found \in mnodes_get(t, carg[t].n) :
          IF ~found
          THEN Return(t, Result("file_info", "panic", 0, ""))
          ELSE IF mnodes[carg[t].n].node_type = "Directory"
          THEN Return(t, Result("file_info", "Directory", 0, ""))
          ELSE Return(t, Result("file_info", "File", get_size(mnodes[carg[t].n].file), ""))
    /\ End_mnodes_read(t)
    /\ UNCHANGED <<fwriter, freaders, calls, fsvars>>

\* lookup: files.read().get(pathname).map(Arc::clone), lib.rs:190-195
Conc_lookup(t, pathname) ==
    /\ CanCall(t)
    /\ files_read_free
    /\ calls' = calls + 1
    /\ IF pathname \in DOMAIN files
       THEN /\ Outstanding(held) < MaxHeld
            /\ held' = [held EXCEPT ![files[pathname]] = @ + 1]
            /\ Return(t, Result("lookup", "Some", files[pathname], pathname))
       ELSE /\ held' = held
            /\ Return(t, Result("lookup", "None", 0, pathname))
    /\ UNCHANGED <<fwriter, freaders, files, mnodes, nextmemnode, created, last, lockvars>>

\* A caller drops a clone it got from lookup.
Conc_drop(t, id) ==
    /\ cpc[t] = "idle" /\ pc[t] = "idle"
    /\ cres[t].op = "lookup" /\ cres[t].res = "Some" /\ cres[t].val = id
    /\ held[id] > 0
    /\ held' = [held EXCEPT ![id] = @ - 1]
    /\ Return(t, Result("drop", "Ok", id, ""))
    /\ UNCHANGED <<fwriter, freaders, calls, files, mnodes, nextmemnode, created, last, lockvars>>

\* delete(pathname) entered by caller t inside the call a:
\* files.write().remove(pathname) and the match on it, lib.rs:216-230. The
\* write guard of files stays with the caller through the match. On None
\* the call returns InvalidFile, which rename unwraps.
delete_begin(t, pathname, a) ==
    /\ files_write_free
    /\ IF pathname \notin DOMAIN files
       THEN /\ Return(t, Result(a.op, IF a.op = "rename" THEN "panic" ELSE "InvalidFile",
                                0, pathname))
            /\ UNCHANGED <<files, fwriter, lockvars>>
       ELSE /\ files' = Remove(files, pathname)
            /\ fwriter' = t
            /\ IF strong_count(held, files[pathname]) = 1
               THEN /\ Goto(t, "delete_mnodes", [a EXCEPT !.n = files[pathname]])
                    /\ Begin_mnodes_write(t)
               ELSE /\ Goto(t, "hang", [a EXCEPT !.n = files[pathname]])
                    /\ UNCHANGED lockvars
    /\ UNCHANGED <<freaders, mnodes, nextmemnode, held, created, last>>

\* delete, lib.rs:215
Conc_delete(t, pathname) ==
    /\ CanCall(t)
    /\ calls' = calls + 1
    /\ delete_begin(t, pathname, Args("delete", pathname, "", 0, 0, <<>>, 0))

\* delete: self.mnodes.write().remove(&mnode); return Ok(true), lib.rs:221-222;
\* inside rename the call goes on after delete(newname).unwrap().
Conc_delete_mnodes(t) ==
    /\ cpc[t] = "delete_mnodes" /\ pc[t] = "w_held"
    /\ mnodes' = Remove(mnodes, carg[t].n)
    /\ End_mnodes_write(t)
    /\ fwriter' = 0
    /\ IF carg[t].op = "rename"
       THEN Goto(t, "rename_remove", carg[t])
       ELSE Return(t, Result("delete", "Ok", carg[t].n, carg[t].p))
    /\ UNCHANGED <<freaders, calls, files, nextmemnode, held, created, last>>

\* truncate: files.read().get(pathname), lib.rs:235; the read guard of files
\* stays with the caller through the match.
Conc_truncate(t, pathname) ==
    /\ CanCall(t)
    /\ files_read_free
    /\ calls' = calls + 1
    /\ IF pathname \notin DOMAIN files
       THEN /\ Return(t, Result("truncate", "InvalidFile", 0, pathname))
            /\ UNCHANGED <<freaders, lockvars>>
       ELSE /\ freaders' = freaders \cup {t}
            /\ Goto(t, "truncate_get", Args("truncate", pathname, "", files[pathname], 0, <<>>, 0))
            /\ Begin_mnodes_read(t, 0)
    /\ UNCHANGED <<fwriter, fsvars>>

\* truncate: self.mnodes.read(0).get(mnode) and file_truncate(), lib.rs:236-239
Conc_truncate_get(t) ==
    /\ cpc[t] = "truncate_get" /\ pc[t] = "r_held"
    /\ \E found \in mnodes_get(t, carg[t].n) :
          IF found
          THEN LET r == MemNode_file_truncate(mnodes[carg[t].n]) IN
               /\ mnodes' = [mnodes EXCEPT ![carg[t].n] = r.node]
               /\ Return(t, Result("truncate", r.res, carg[t].n, carg[t].p))
          ELSE /\ mnodes' = mnodes
               /\ Return(t, Result("truncate", "InvalidFile", 0, carg[t].p))
    /\ End_mnodes_read(t)
    /\ freaders' = freaders \ {t}
    /\ UNCHANGED <<fwriter, calls, files, nextmemnode, held, created, last>>

\* rename: files.read().get(oldname).is_none(), lib.rs:246-248
Conc_rename(t, oldname, newname) ==
    /\ CanCall(t)
    /\ files_read_free
    /\ calls' = calls + 1
    /\ IF oldname \notin DOMAIN files
       THEN Return(t, Result("rename", "InvalidFile", 0, oldname))
       ELSE Goto(t, "rename_check", Args("rename", oldname, newname, 0, 0, <<>>, 0))
    /\ UNCHANGED <<fwriter, freaders, fsvars, lockvars>>

\* rename: files.read().get(newname).is_some(), lib.rs:251
Conc_rename_check(t) ==
    /\ cpc[t] = "rename_check"
    /\ files_read_free
    /\ Goto(t, IF carg[t].q \in DOMAIN files THEN "rename_delete" ELSE "rename_remove",
            carg[t])
    /\ UNCHANGED <<fwriter, freaders, calls, fsvars, lockvars>>

\* rename: self.delete(newname).unwrap(), lib.rs:252
Conc_rename_delete(t) ==
    /\ cpc[t] = "rename_delete"
    /\ calls' = calls
    /\ delete_begin(t, carg[t].q, carg[t])

\* rename: files.write().remove_entry(oldname).unwrap(), lib.rs:255
Conc_rename_remove(t) ==
    /\ cpc[t] = "rename_remove"
    /\ files_write_free
    /\ IF carg[t].p \notin DOMAIN files
       THEN /\ Return(t, Result("rename", "panic", 0, carg[t].p))
            /\ files' = files
       ELSE /\ Goto(t, "rename_insert", [carg[t] EXCEPT !.n = files[carg[t].p]])
            /\ files' = Remove(files, carg[t].p)
    /\ UNCHANGED <<fwriter, freaders, calls, mnodes, nextmemnode, held, created, last, lockvars>>

\* rename: files.write().insert(newname, value), lib.rs:256-259
Conc_rename_insert(t) ==
    /\ cpc[t] = "rename_insert"
    /\ files_write_free
    /\ files' = Insert(files, carg[t].q, carg[t].n)
    /\ Return(t, Result("rename",
                        IF carg[t].q \in DOMAIN files THEN "PermissionError" ELSE "Ok",
                        carg[t].n, carg[t].q))
    /\ UNCHANGED <<fwriter, freaders, calls, mnodes, nextmemnode, held, created, last, lockvars>>

\* The callers' calls and the steps of the lock of mnodes they wait in.
ConcNext ==
    \E t \in Callers :
        \/ \E p \in ConcPaths, m \in ConcModes : Conc_create(t, p, m)
        \/ Conc_create_alloc(t)
        \/ Conc_create_files(t)
        \/ Conc_create_mnodes(t)
        \/ \E i \in ConcIds, b \in Buffers, o \in Offsets : Conc_write(t, i, b, o)
        \/ Conc_write_get(t)
        \/ \E i \in ConcIds, n \in BufLens, o \in Offsets : Conc_read(t, i, n, o)
        \/ Conc_read_get(t)
        \/ \E i \in ConcIds : Conc_file_info(t, i)
        \/ Conc_file_info_get(t)
        \/ \E p \in ConcPaths : Conc_lookup(t, p)
        \/ \E i \in AllIds : Conc_drop(t, i)
        \/ \E p \in ConcPaths : Conc_delete(t, p)
        \/ Conc_delete_mnodes(t)
        \/ \E p \in ConcPaths : Conc_truncate(t, p)
        \/ Conc_truncate_get(t)
        \/ \E p, q \in ConcPaths : Conc_rename(t, p, q)
        \/ Conc_rename_check(t)
        \/ Conc_rename_delete(t)
        \/ Conc_rename_remove(t)
        \/ Conc_rename_insert(t)
        \/ write_cas(t)
        \/ write_scan(t)
        \/ read_spin(t)
        \/ read_inc(t)
        \/ read_check(t)
        \/ read_dec(t)

\* ------------------------------------------------------------------------
\* Specifications
\* ------------------------------------------------------------------------

Init == LockInit /\ FSInit /\ ConcInit

\* The file system, called by one caller at a time.
Spec == Init /\ [][FSNext]_vars

\* One RwLock used by NThreads threads.
SpecLock == Init /\ [][LockNext]_vars

SpecUnlock == Init /\ [][UnlockNext]_vars

\* One RwLock used by writers under fair scheduling.
SpecWriters == Init /\ [][WritersNext]_vars /\ WritersFair

\* The file system called by the threads of Callers at once.
SpecConc == Init /\ [][ConcNext]_vars

\* The contents of one file, written and read by one caller at a time.
SpecFile == Init /\ [][FileNext]_vars

\* ------------------------------------------------------------------------
\* Properties of the lock
\* ------------------------------------------------------------------------

\* C1: at most one thread holds a WriteGuard at any instant, and no update
\* made by  *ele += 1  under the guard is lost: data counts the finished ones.
C1_OneWriter ==
    /\ Cardinality(WriteGuards) <= 1
    /\ data = completed

\* A writer holds the guard after an update while a second write() waits.
C1_Witness ==
    \E t, u \in Threads :
        /\ pc[t] = "w_held" /\ pc[u] = "w_cas"
        /\ data = MaxData

\* C2: a ReadGuard taken with a tid inside the active slots and a WriteGuard
\* are never held at the same time.
C2_NoReaderWithWriter ==
    \A r \in ReadGuards : tid[r] < max_thread => WriteGuards = {}

\* A reader with an active tid holds its guard while write() waits in its
\* scan, and another read() has backed off from a set flag.
C2_Witness ==
    \E r, w, q \in Threads :
        /\ pc[r] = "r_held" /\ tid[r] < max_thread
        /\ pc[w] = "w_scan"
        /\ pc[q] = "r_dec"

\* C3: write_unlock() on a clear flag and read_unlock(tid) on a zero slot do
\* not return: the thread ends in the panic of that function.
C3_UnlockWithoutLockIsFatal ==
    [][\A t \in Threads :
          /\ (pc[t] = "write_unlock" /\ pc'[t] # pc[t] /\ wlock = FALSE)
                => pc'[t] = "panic_write_unlock"
          /\ (pc[t] = "read_unlock" /\ pc'[t] # pc[t]
                /\ tid[t] \in Slots /\ rlock[tid[t]] = 0)
                => pc'[t] = "panic_read_unlock"]_vars

\* read_unlock has panicked on a zero slot, which its fetch_sub has wrapped.
C3_Witness ==
    \E t \in Threads, i \in Slots :
        /\ pc[t] = "panic_read_unlock"
        /\ rlock[i] = -1
        /\ wlock = FALSE

\* The step that hands a reader its guard.
Admit(t) == read_check(t) /\ pc'[t] = "r_held"

\* C4: while the write flag is clear a read() is never held up by other
\* readers (its increment and its admission can always be taken), and a
\* guard whose tid no other reader uses sees its slot at exactly one.
C4_ReadersShare ==
    \A t \in Threads :
        /\ (pc[t] = "r_inc") => ENABLED read_inc(t)
        /\ (pc[t] = "r_check" /\ wlock = FALSE) => ENABLED Admit(t)
        /\ (pc[t] = "r_held" /\ \A u \in Counted \ {t} : tid[u] # tid[t])
              => rlock[tid[t]] = 1

\* Three readers with three tids hold their guards together.
C4_Witness ==
    /\ wlock = FALSE
    /\ ReadGuards = Threads
    /\ \A t, u \in Threads : t # u => tid[t] # tid[u]
    /\ \A t \in Threads : rlock[tid[t]] = 1

\* C18 as claimed: two read(tid) calls with the same tid never hold
\* ReadGuards at the same time.
C18_SameTidSerializes ==
    \A t, u \in ReadGuards : t # u => tid[t] # tid[u]

\* C18 as amended: readers with the same tid do not wait for each other
\* either. They share the slot, whose counter is the number of readers
\* counted in it, and whatever the tids of the other readers, a read() that
\* finds the write flag clear is handed its guard.
C18_ReadersShareSlot ==
    /\ \A i \in Slots : rlock[i] = Cardinality({t \in Counted : tid[t] = i})
    /\ \A t \in Threads : (pc[t] = "r_check" /\ wlock = FALSE) => ENABLED Admit(t)

\* Two readers hold guards taken with the same tid, and the slot counts two.
C18_Witness ==
    \E t, u \in ReadGuards :
        /\ t # u /\ tid[t] = tid[u]
        /\ rlock[tid[t]] = 2
        /\ wlock = FALSE

\* C24: accounting of the lock, whatever the interleaving of read(tid),
\* write() and the drops of the guards: each reader slot holds the number
\* of readers that have incremented it and not yet decremented it, and the
\* write flag is set exactly when one writer is between its successful
\* compare_and_swap and its unlock.  So no drop of a guard ends in the
\* panic of write_unlock or read_unlock, and when no thread is inside
\* read() or write() or holds a guard, the flag is clear and every slot is
\* zero.
C24_LockAccounting ==
    /\ \A i \in Slots : rlock[i] = Cardinality({t \in Counted : tid[t] = i})
    /\ Cardinality(Flagged) = (IF wlock THEN 1 ELSE 0)
    /\ \A t \in Threads : pc[t] \notin {"panic_write_unlock", "panic_read_unlock"}
    /\ (\A t \in Threads : pc[t] \in {"idle", "panic_index"}) =>
           (wlock = FALSE /\ \A i \in Slots : rlock[i] = 0)

\* After the updates under the WriteGuard a writer has set the flag and
\* scans, while two readers of one slot are counted in it: one backing off,
\* one about to.
C24_Witness ==
    /\ completed = MaxData
    /\ wlock = TRUE
    /\ \E t, u, v \in Threads :
           /\ pc[t] = "w_scan" /\ pc[u] = "r_dec" /\ pc[v] = "r_check"
           /\ tid[u] = tid[v]
           /\ rlock[tid[u]] = 2

\* C19: under fair scheduling, with every guard dropped in the end, every
\* write() call returns its WriteGuard in the end, also while other
\* writers keep arriving.
C19_WriterGetsGuard ==
    \A t \in Threads : (pc[t] = "w_cas") ~> (pc[t] = "w_held")

\* ------------------------------------------------------------------------
\* Properties of the file system, called by one caller at a time
\* ------------------------------------------------------------------------

\* C5: after each call every id that is a value in files is a key of mnodes.
C5_PathsResolve ==
    \A p \in DOMAIN files : files[p] \in DOMAIN mnodes

\* A rename onto an existing path has returned: the id it displaced is gone
\* from mnodes and the renamed id is still there.
C5_Witness ==
    /\ last.op = "rename" /\ last.res = "Ok"
    /\ \E p \in DOMAIN files : files[p] = last.val /\ last.val >= 2
    /\ \E i \in 2..(nextmemnode - 1) : i \notin DOMAIN mnodes
    /\ Cardinality(DOMAIN files) = 2

\* C6: the root is never removed: "/" resolves to id 1 and mnodes holds id 1
\* as a Directory.
C6_RootNeverRemoved ==
    /\ lookup(files, "/") = 1
    /\ 1 \in DOMAIN mnodes
    /\ mnodes[1].node_type = "Directory"

\* C7 as claimed: every create call, failed or not, leaves nextmemnode
\* strictly greater than before.
C7_EveryCreateIncreases ==
    [][last'.op = "create" => nextmemnode' > nextmemnode]_vars

\* C7 as amended: nextmemnode never decreases; a create call that returns an
\* id leaves it greater by one, and a create call that fails with
\* AlreadyPresent leaves it as it was.
C7_NextIdMonotone ==
    [][/\ nextmemnode' >= nextmemnode
       /\ last'.op = "create" =>
            IF last'.res = "AlreadyPresent"
            THEN nextmemnode' = nextmemnode
            ELSE last'.res = "Ok" /\ nextmemnode' = nextmemnode + 1]_vars

\* The second create of scenario A has failed and the counter still reads 3.
C7_Witness ==
    /\ last.op = "create" /\ last.res = "AlreadyPresent"
    /\ created = 1 /\ nextmemnode = 3

\* C8: create on a path absent from files returns an id; lookup of the path
\* then returns that id, and mnodes holds a File memnode under it.
C8_CreateThenLookup ==
    [][\A p \in PathNames, m \in ModeChoices :
          (MemFS_create(p, m) /\ p \notin DOMAIN files) =>
              /\ last'.res = "Ok"
              /\ lookup(files', p) = last'.val
              /\ last'.val \in DOMAIN mnodes'
              /\ mnodes'[last'.val].node_type = "File"
              /\ mnodes'[last'.val].file = File_new(m)]_vars

\* The second file has been created: its path resolves to the id returned.
C8_Witness ==
    /\ last.op = "create" /\ last.res = "Ok" /\ last.val = 3
    /\ lookup(files, "b") = 3
    /\ mnodes[3].node_type = "File"

\* C9: create on a path present in files returns AlreadyPresent and changes
\* nothing; so the k-th create that returns an id returns k + 1, however
\* many creates failed before it.
C9_FailedCreateChangesNothing ==
    [][\A p \in PathNames, m \in ModeChoices :
          MemFS_create(p, m) =>
              IF p \in DOMAIN files
              THEN /\ last'.res = "AlreadyPresent"
                   /\ UNCHANGED <<files, mnodes, nextmemnode, held, created>>
              ELSE /\ last'.res = "Ok"
                   /\ last'.val = created + 2]_vars

\* A create has failed on a full name table after two creates succeeded.
C9_Witness ==
    /\ last.op = "create" /\ last.res = "AlreadyPresent"
    /\ created = 2 /\ nextmemnode = 4
    /\ DOMAIN files = PathNames

\* C10: delete of a present path whose Arc no caller holds (as after create)
\* returns true; the path then resolves to nothing and the id is no key of
\* mnodes.
C10_CreateThenDelete ==
    [][\A p \in PathNames :
          (MemFS_delete(p) /\ p \in DOMAIN files /\ held[files[p]] = 0) =>
              /\ last'.res = "Ok"
              /\ last'.val = files[p]
              /\ lookup(files', p) = 0
              /\ files[p] \notin DOMAIN mnodes']_vars

\* The file created last has been deleted.
C10_Witness ==
    /\ last.op = "delete" /\ last.res = "Ok"
    /\ last.val = nextmemnode - 1 /\ last.val >= 2
    /\ last.val \notin DOMAIN mnodes
    /\ \A p \in DOMAIN files : files[p] # last.val

\* C12: for an existing old and new # old, a rename(old, new) that succeeds
\* leaves new resolving to the id old resolved to and old resolving to
\* nothing; an id new resolved to before is reachable from no path.
C12_RenamePreservesIdentity ==
    [][\A p, q \in PathNames :
          (/\ last'.op = "rename" /\ last'.res = "Ok"
           /\ MemFS_rename(p, q)
           /\ p # q /\ p \in DOMAIN files) =>
              /\ lookup(files', q) = files[p]
              /\ lookup(files', p) = 0
              /\ q \in DOMAIN files =>
                    \A x \in DOMAIN files' : files'[x] # files[q]]_vars

\* Scenario B: with a = 2 and b = 3 created, rename(a, b) has returned true.
C12_Witness ==
    /\ last.op = "rename" /\ last.res = "Ok" /\ last.val = 2
    /\ lookup(files, "a") = 0
    /\ lookup(files, "b") = 2
    /\ nextmemnode = 4
    /\ 3 \notin DOMAIN mnodes

\* C13: delete(p) called while a handle returned by lookup(p) is held
\* returns PermissionError and leaves p resolving to the same id, with its
\* memnode still in mnodes.
C13_DeleteHeldIsRefused ==
    [][\A p \in PathNames :
          (/\ last'.op = "delete"
           /\ MemFS_delete(p)
           /\ p \in DOMAIN files /\ held[files[p]] > 0) =>
              /\ last'.res = "PermissionError"
              /\ lookup(files', p) = files[p]
              /\ files[p] \in DOMAIN mnodes']_vars

\* C15: for every mnode number that is no key of mnodes, zero and numbers
\* beyond the reader slots included, write and read return InvalidFile and
\* leave the file system as it was.
C15_AbsentIdIsInvalidFile ==
    [][\A i \in IdChoices, b \in Buffers, n \in BufLens, o \in Offsets :
          (/\ i \notin DOMAIN mnodes
           /\ MemFS_write(i, b, o) \/ MemFS_read(i, n, o)) =>
              /\ last'.res = "InvalidFile"
              /\ UNCHANGED <<files, mnodes, nextmemnode>>]_vars

\* C16: rename(old, new) with old present and new present under a handle
\* some caller holds returns PermissionError to the caller.
C16_RenameOntoHeldIsRefused ==
    [][\A p, q \in PathNames :
          (/\ last'.op = "rename"
           /\ MemFS_rename(p, q)
           /\ p # q /\ p \in DOMAIN files /\ q \in DOMAIN files
           /\ held[files[q]] > 0) =>
              last'.res = "PermissionError"]_vars

\* C26: rename(p, p) on the path p of a file that exists and has no
\* outstanding lookup handle returns to the caller and leaves the state as
\* it was: p resolves to the same id and mnodes still holds it.
C26_RenameOntoItselfKeeps ==
    [][\A p \in PathNames :
          (/\ last'.op = "rename"
           /\ MemFS_rename(p, p)
           /\ p \in DOMAIN files /\ files[p] \in DOMAIN mnodes
           /\ mnodes[files[p]].node_type = "File"
           /\ held[files[p]] = 0) =>
              /\ last'.res \notin {"panic", "hang"}
              /\ UNCHANGED <<files, mnodes>>]_vars

\* ------------------------------------------------------------------------
\* Properties of the contents of a file
\* ------------------------------------------------------------------------

C21_ReadResult ==
    /\ [](\A i \in DOMAIN mnodes, n \in FileLens, o \in AnyOffsets :
            (mnodes[i].node_type = "File" /\ is_readable(mnodes[i].file.modes)) =>
                LET sz == get_size(mnodes[i].file)
                    r == MemNode_read(mnodes[i], n, o)
                IN IF o >= sz \/ n = 0
                   THEN r.res = "InvalidOffset"
                   ELSE /\ r.res = "Ok"
                        /\ r.val = Min(sz - o, n)
                        /\ o + r.val <= sz
                        /\ r.out = SubSeq(mnodes[i].file.mcache, o + 1, o + r.val))
    /\ [][last'.op = "read" => UNCHANGED <<files, mnodes, nextmemnode>>]_vars

\* A read into an empty buffer has failed with InvalidOffset: the file has
\* three bytes, more than any offset read is called with.
C21_Witness ==
    /\ last.op = "read" /\ last.res = "InvalidOffset"
    /\ 2 \in DOMAIN mnodes
    /\ get_size(mnodes[2].file) = MaxOffset + 1

\* C22: write, read and truncate applied to a directory memnode (the root:
\* id 1, path "/"), or to a file whose mode lacks the matching bit (the
\* writable bit for write and truncate, the readable bit for read), return
\* PermissionError and leave the memnodes as they were; the kind is looked
\* at before the mode, so the root, which has no file, never has its mode
\* read.  No write, read or truncate changes the paths, and one that
\* returns PermissionError changes no memnode.
Refuses(node, writing) ==
    \/ node.node_type # "File"
    \/ IF writing THEN ~is_writable(node.file.modes)
                  ELSE ~is_readable(node.file.modes)

C22_PermissionError ==
    /\ [](\A i \in DOMAIN mnodes, b \in FileBuffers, n \in FileLens, o \in FileOffsets :
            /\ Refuses(mnodes[i], TRUE) =>
                   LET r == write(mnodes, i, b, o)
                   IN r.res = "PermissionError" /\ r.mnodes = mnodes
            /\ Refuses(mnodes[i], FALSE) =>
                   read(mnodes, i, n, o).res = "PermissionError")
    /\ [](\A p \in DOMAIN files :
            (files[p] \in DOMAIN mnodes /\ Refuses(mnodes[files[p]], TRUE)) =>
                LET r == truncate(files, mnodes, p)
                IN r.res = "PermissionError" /\ r.mnodes = mnodes)
    /\ [][last'.op \in {"write", "read", "truncate"} =>
            /\ UNCHANGED <<files, nextmemnode>>
            /\ last'.res = "PermissionError" => UNCHANGED mnodes]_vars

\* truncate("/") was refused while a file that cannot be read holds bytes
C22_Witness ==
    /\ last.op = "truncate" /\ last.res = "PermissionError" /\ last.val = 1
    /\ \E i \in DOMAIN mnodes :
           /\ mnodes[i].node_type = "File"
           /\ ~is_readable(mnodes[i].file.modes)
           /\ get_size(mnodes[i].file) > 0

\* ------------------------------------------------------------------------
\* Properties of the file system called by several threads at once
\* ------------------------------------------------------------------------

\* C14: when the only two calls made are creates of the same path, run by
\* two callers, at most one of them has returned an id; and once one has
\* and the other has failed with AlreadyPresent, the path resolves to the
\* id returned.
C14_OneCreateWins ==
    \A t, u \in Callers :
        (/\ t # u /\ calls = 2
         /\ cres[t].op = "create" /\ cres[u].op = "create"
         /\ cres[t].p = cres[u].p
         /\ cres[t].res = "Ok") =>
            /\ cres[u].res = "AlreadyPresent"
            /\ lookup(files, cres[t].p) = cres[t].val

\* The callers that hold a ReadGuard of mnodes inside read, write, file_info
\* or truncate.
MnodesReaders ==
    {t \in Callers : pc[t] = "r_held" /\
        cpc[t] \in {"read_get", "write_get", "file_info_get", "truncate_get"}}

\* The callers that hold the WriteGuard of mnodes inside create or delete.
MnodesWriters ==
    {t \in Callers : pc[t] = "w_held" /\ cpc[t] \in {"create_mnodes", "delete_mnodes"}}

\* C17: while read, write, file_info or truncate holds its ReadGuard of
\* mnodes, taken with the tid the call supplies, no create or delete holds
\* the WriteGuard of mnodes.
C17_ReadersAreSeen ==
    MnodesReaders # {} => MnodesWriters = {}

\* C20: whatever the interleaving, no create, delete, rename, truncate,
\* lookup, read or write call aborts: each returns a value or an error.
C20_NoCallAborts ==
    \A t \in Callers :
        cres[t].op \in {"create", "delete", "rename", "truncate", "lookup", "read", "write"}
            => cres[t].res # "panic"

\* C25: in every state, those in the middle of a create included, the id a
\* lookup(path) has returned is a key of mnodes for as long as the path
\* still resolves to it (it has not been deleted or renamed since).
C25_LookedUpIdIsPresent ==
    \A t \in Callers :
        (/\ cres[t].op = "lookup" /\ cres[t].res = "Some"
         /\ cres[t].p \in DOMAIN files
         /\ files[cres[t].p] = cres[t].val) =>
            cres[t].val \in DOMAIN mnodes

\* C23: whatever the interleaving of the calls, no two create calls return
\* the same id, every id returned is at least 2 (never the root id 1), and
\* nextmemnode is greater than every id returned so far and than every id
\* a create still running has been given.
C23_IdsAreUnique ==
    /\ \A i \in DOMAIN returned :
           returned[i] = 1 /\ i >= 2 /\ i < nextmemnode
    /\ \A t \in Callers :
           cpc[t] \in {"create_files", "create_mnodes"} =>
               /\ carg[t].n >= 2 /\ carg[t].n < nextmemnode
               /\ carg[t].n \notin DOMAIN returned
               /\ \A u \in Callers \ {t} :
                      cpc[u] \in {"create_files", "create_mnodes"} =>
                          carg[u].n # carg[t].n

\* Two creates of the same path ran side by side and both returned an id.
C23_Witness ==
    /\ DOMAIN returned = {2, 3}
    /\ DOMAIN files = {"/", "a"}
    /\ \A t \in Callers : cres[t].op = "create" /\ cres[t].res = "Ok"

====
